---- MODULE Spec2Model ----
(***************************************************************************)
(* Model of the LSTV annotation tool's maintenance scripts:                *)
(*   sync_firestore.py    - reconciliation of the Firestore catalog with   *)
(*                          the bucket <project_id>.firebasestorage.app    *)
(*   upload_dicoms.py     - ingestion of a local DICOM tree into the       *)
(*                          bucket <project_id>.appspot.com                *)
(*   cleanup_firestore.py - prompted deletion of catalog documents         *)
(* Python strings are sequences of one-character strings, Python values    *)
(* that serve as dictionary keys carry their type (int, str, None).        *)
(***************************************************************************)
EXTENDS Integers, Sequences, FiniteSets, TLC

\* ------------------------------------------------------------ bounds ----
MaxIngestRuns == 2
MaxSyncRuns == 2
MaxCleanupRuns == 2

\* ------------------------------------------------- Python primitives ----
\* ord() of the characters that occur in the model
Ord(c) ==
  CASE c = "." -> 46 [] c = "/" -> 47
    [] c = "0" -> 48 [] c = "1" -> 49 [] c = "2" -> 50 [] c = "3" -> 51
    [] c = "4" -> 52 [] c = "5" -> 53 [] c = "6" -> 54 [] c = "7" -> 55
    [] c = "8" -> 56 [] c = "9" -> 57
    [] c = "N" -> 78
    [] c = "a" -> 97 [] c = "c" -> 99 [] c = "d" -> 100 [] c = "e" -> 101
    [] c = "i" -> 105 [] c = "m" -> 109 [] c = "n" -> 110 [] c = "o" -> 111
    [] c = "s" -> 115 [] c = "t" -> 116 [] c = "x" -> 120

\* str.isdigit on one character
IsDigit(c) == Ord(c) >= 48 /\ Ord(c) <= 57

\* a Python value used as a dictionary key or as a document field
PyInt(n) == [t |-> "int", n |-> n, s |-> <<>>]
PyStr(s) == [t |-> "str", n |-> 0, s |-> s]
PyNone == [t |-> "none", n |-> 0, s |-> <<>>]

RECURSIVE IntOf(_)
\* int(s) for a string of decimal digits
IntOf(s) ==
  IF s = <<>> THEN 0
  ELSE 10 * IntOf(SubSeq(s, 1, Len(s) - 1)) + (Ord(s[Len(s)]) - 48)

\* int(s) succeeds (otherwise ValueError); the model's names carry no sign,
\* blank or underscore
IsIntLiteral(s) == s # <<>> /\ \A i \in 1..Len(s) : IsDigit(s[i])

DigitChar(d) == <<"0", "1", "2", "3", "4", "5", "6", "7", "8", "9">>[d + 1]

RECURSIVE StrOfInt(_)
\* str(n) for an int n >= 0
StrOfInt(n) ==
  IF n < 10 THEN <<DigitChar(n)>>
  ELSE StrOfInt(n \div 10) \o <<DigitChar(n % 10)>>

\* str(v)
Str(v) ==
  CASE v.t = "str" -> v.s
    [] v.t = "int" -> StrOfInt(v.n)
    [] v.t = "none" -> <<"N", "o", "n", "e">>

RECURSIVE StrLess(_, _)
\* a < b on Python strings (code point order)
StrLess(a, b) ==
  IF b = <<>> THEN FALSE
  ELSE IF a = <<>> THEN TRUE
  ELSE IF a[1] # b[1] THEN Ord(a[1]) < Ord(b[1])
  ELSE StrLess(Tail(a), Tail(b))

RECURSIVE SortedStrings(_)
\* sorted(S) for a set of distinct strings
SortedStrings(S) ==
  IF S = {} THEN <<>>
  ELSE LET m == CHOOSE x \in S : \A y \in S \ {x} : StrLess(x, y)
       IN <<m>> \o SortedStrings(S \ {m})

RECURSIVE Split(_)
\* s.split('/')
Split(s) ==
  IF \A i \in 1..Len(s) : s[i] # "/" THEN <<s>>
  ELSE LET p == CHOOSE i \in 1..Len(s) :
                  s[i] = "/" /\ \A j \in 1..(i - 1) : s[j] # "/"
       IN <<SubSeq(s, 1, p - 1)>> \o Split(SubSeq(s, p + 1, Len(s)))

\* s.endswith(suffix)
EndsWith(s, suffix) ==
  Len(s) >= Len(suffix)
  /\ SubSeq(s, Len(s) - Len(suffix) + 1, Len(s)) = suffix

\* s.startswith(prefix)
StartsWith(s, prefix) ==
  Len(s) >= Len(prefix) /\ SubSeq(s, 1, Len(prefix)) = prefix

DotDcm == <<".", "d", "c", "m">>
DicomsPrefix == <<"d", "i", "c", "o", "m", "s", "/">>

\* f"dicoms/{study_id}/{series_id}/{filename}"
BlobPath(study_id, series_id, filename) ==
  DicomsPrefix \o Str(study_id) \o <<"/">> \o Str(series_id) \o <<"/">> \o filename

\* f"dicoms/{study_id}/{series_id}/"
SeriesStoragePath(study_id, series_id) ==
  DicomsPrefix \o Str(study_id) \o <<"/">> \o Str(series_id) \o <<"/">>

RECURSIVE SelectDigits(_)
\* ''.join(filter(str.isdigit, x))
SelectDigits(x) ==
  IF x = <<>> THEN <<>>
  ELSE (IF IsDigit(x[1]) THEN <<x[1]>> ELSE <<>>) \o SelectDigits(Tail(x))

\* the sort key of create_study_metadata
NumericKey(x) == IntOf(IF SelectDigits(x) = <<>> THEN <<"0">> ELSE SelectDigits(x))

RECURSIVE InsertByKey_Unstable(_, _)
\* as InsertByKey, with a filename put before those of the same key
InsertByKey_Unstable(sorted, x) ==
  IF sorted = <<>> THEN <<x>>
  ELSE LET last == sorted[Len(sorted)]
       IN IF NumericKey(last) < NumericKey(x) THEN Append(sorted, x)
          ELSE Append(InsertByKey_Unstable(SubSeq(sorted, 1, Len(sorted) - 1), x),
                      last)
RECURSIVE InsertByKey(_, _)
\* where sorted() puts a filename among those before it in the list: after
\* every one whose key is not greater
InsertByKey(sorted, x) ==
  IF sorted = <<>> THEN <<x>>
  ELSE LET last == sorted[Len(sorted)]
       IN IF NumericKey(last) <= NumericKey(x) THEN Append(sorted, x)
          ELSE Append(InsertByKey(SubSeq(sorted, 1, Len(sorted) - 1), x), last)

RECURSIVE SortedByNumericKey(_)
\* as SortedByNumericKey, with the filenames compared as strings
SortedByNumericKey_Lexicographic(filenames) ==
  SortedStrings({filenames[i] : i \in 1..Len(filenames)})
\* sorted(filenames, key=NumericKey): stable
SortedByNumericKey(filenames) ==
  IF filenames = <<>> THEN <<>>
  ELSE InsertByKey(SortedByNumericKey(SubSeq(filenames, 1, Len(filenames) - 1)),
                   filenames[Len(filenames)])

RECURSIVE SumSeq(_)
SumSeq(q) == IF q = <<>> THEN 0 ELSE q[1] + SumSeq(Tail(q))

\* ------------------------------------------------------ DICOM files ----
\* The bytes of a DICOM file, as far as the scripts look at them: whether
\* pydicom.dcmread parses them, which header attributes are present (a set
\* with the value, empty when hasattr is false), and the file size.
Dcm(inst, loc, desc, size) ==
  [readable |-> TRUE, InstanceNumber |-> inst, SliceLocation |-> loc,
   SeriesDescription |-> desc, size |-> size]
BadDcm(size) ==
  [readable |-> FALSE, InstanceNumber |-> {}, SliceLocation |-> {},
   SeriesDescription |-> {}, size |-> size]

\* DicomUploader.get_dicom_metadata
get_dicom_metadata(dcm) ==
  IF dcm.readable
  THEN [instance_number |-> IF dcm.InstanceNumber # {}
                            THEN CHOOSE v \in dcm.InstanceNumber : TRUE ELSE 0,
        slice_location |-> IF dcm.SliceLocation # {}
                           THEN CHOOSE v \in dcm.SliceLocation : TRUE ELSE 0,
        series_description |-> IF dcm.SeriesDescription # {}
                               THEN CHOOSE v \in dcm.SeriesDescription : TRUE
                               ELSE "Unknown"]
  ELSE [instance_number |-> 0, slice_location |-> 0,
        series_description |-> "Unknown"]

\* the header fields FirestoreStorageSync.download_dicom_metadata returns for
\* the bytes of a blob
ParsedBlobMetadata(dcm) ==
  IF dcm.readable
  THEN [instance_number |-> IF dcm.InstanceNumber # {}
                            THEN CHOOSE v \in dcm.InstanceNumber : TRUE ELSE 0,
        slice_location |-> IF dcm.SliceLocation # {}
                           THEN CHOOSE v \in dcm.SliceLocation : TRUE ELSE 0,
        series_description |-> IF dcm.SeriesDescription # {}
                               THEN CHOOSE v \in dcm.SeriesDescription : TRUE
                               ELSE ""]
  ELSE [instance_number |-> 0, slice_location |-> 0, series_description |-> ""]

\* str.lower() on the characters an answer is typed with
LowerChar(c) ==
  CASE c = "Y" -> "y" [] c = "E" -> "e" [] c = "S" -> "s"
    [] c = "N" -> "n" [] c = "O" -> "o" [] OTHER -> c
PyLower(s) == [i \in 1..Len(s) |-> LowerChar(s[i])]

\* what the operator may type at a prompt
Responses ==
  {<<"y", "e", "s">>, <<"Y", "E", "S">>, <<"Y", "e", "s">>, <<"n", "o">>, <<"y">>, <<>>}

\* ------------------------------------------------------- the universe ----
N1 == <<"1">>
N2 == <<"2">>
N3 == <<"3">>
N8 == <<"8">>
N9 == <<"9">>
Nx == <<"x">>
F1 == <<"1", ".", "d", "c", "m">>
F2 == <<"2", ".", "d", "c", "m">>
F10 == <<"1", "0", ".", "d", "c", "m">>
Ftxt == <<"a", ".", "t", "x", "t">>
Fa1 == <<"a", "1", ".", "d", "c", "m">>
F1a == <<"1", "a", ".", "d", "c", "m">>
Fx1 == <<"x", "1", ".", "d", "c", "m">>

\* A local DICOM root: study directory -> series directory -> file -> bytes
TreeA ==
  (N1 :> (N1 :> (F2 :> Dcm({50}, {20}, {"T2"}, 7) @@ F10 :> Dcm({10}, {}, {"T2"}, 8))))
TreeB ==
  (N1 :> (N1 :> (F1 :> BadDcm(5) @@ Ftxt :> BadDcm(1)) @@ N2 :> (Ftxt :> BadDcm(1))))
  @@ (N2 :> (N1 :> (F1 :> Dcm({1}, {3}, {}, 6))))
  @@ (N3 :> (N1 :> (Ftxt :> BadDcm(1))))
TreeC ==
  (N2 :> (N1 :> (F1 :> Dcm({}, {4}, {"T1"}, 6)) @@ Nx :> (F1 :> BadDcm(2))))
  @@ (N3 :> <<>>)
  @@ (N8 :> (N1 :> (F1 :> Dcm({7}, {1}, {"T1"}, 3))))
  @@ (Nx :> (N1 :> (F1 :> BadDcm(2))))
Trees == {TreeA, TreeB, TreeC}

\* Initial contents of a bucket: blob name -> bytes
Bucket0 == <<>>
Bucket1 ==
  (BlobPath(PyStr(N1), PyStr(N1), F2) :> Dcm({50}, {20}, {"T2"}, 7))
  @@ (BlobPath(PyStr(N1), PyStr(N1), F10) :> Dcm({10}, {}, {"T2"}, 8))
  @@ (BlobPath(PyStr(N3), PyStr(N1), F1) :> BadDcm(4))
  @@ (BlobPath(PyStr(N3), PyStr(N1), Ftxt) :> BadDcm(1))
  @@ ((DicomsPrefix \o N9 \o <<"/">> \o F1) :> BadDcm(1))
Bucket2 == (BlobPath(PyStr(N1), PyStr(N1), F2) :> Dcm({51}, {5}, {}, 9))
\* what the bucket upload_dicoms.py opens may hold before the scripts run
UploadBuckets == {Bucket0, Bucket2}
\* what the bucket sync_firestore.py opens may hold before the scripts run
SyncBuckets == {Bucket0, Bucket1}

\* A document found in the collection before the scripts run
OldDoc(study_id, total_slices) ==
  [study_id |-> study_id, series |-> <<>>, total_series |-> 0,
   total_slices |-> total_slices, upload_date |-> "old", status |-> "ready"]

\* Initial contents of the 'studies' collection: document id -> body
Catalog0 == <<>>
Catalog1 == (N3 :> OldDoc(PyStr(N3), 1)) @@ (N9 :> OldDoc(PyStr(N9), 0))
Catalog2 == (Nx :> OldDoc(PyStr(N1), 2)) @@ (N2 :> OldDoc(PyInt(2), 1))
Catalog3 == (N8 :> OldDoc(PyStr(N9), 0)) @@ (N9 :> OldDoc(PyStr(N9), 0))
            @@ (N1 :> OldDoc(PyNone, 0))
Catalogs == {Catalog0, Catalog1, Catalog2, Catalog3}

\* upload_dicoms.py main(): bucket_name = f"{project_id}.appspot.com"
UploadBucketName(project_id) == <<project_id, ".appspot.com">>
\* sync_firestore.py main(): bucket_name = f"{project_id}.firebasestorage.app"
SyncBucketName(project_id) == <<project_id, ".firebasestorage.app">>

\* -------------------------------------------------------------- state ----
VARIABLES
  bucket,            \* the bucket named UploadBucketName(project_id):
                     \* blob name -> bytes
  sync_bucket,       \* the bucket named SyncBucketName(project_id), another
                     \* name whatever the project: blob name -> bytes
  db,                \* Firestore collection 'studies': document id -> body
  dicom_root,        \* the local directory given to upload_dicoms.py
  sync_pc,           \* position of the sync_firestore.py process
  dry_run,           \* main(): '--apply' not in sys.argv
  storage_studies,   \* sync(): result of get_storage_studies()
  firestore_studies, \* sync(): result of get_firestore_studies()
  orphaned_studies,
  missing_studies,
  existing_studies,
  visited,           \* study ids the three apply loops have iterated over
  sync_log,          \* catalog mutations issued by the current sync()
  summary,           \* the counts sync() printed last
  sync_runs,         \* number of sync_firestore.py invocations so far
  ing_pc,            \* position of the upload_dicoms.py process
  study_dirs,        \* upload_studies(): sorted(study_dirs)
  study_idx,         \* upload_studies(): position of the loop over study_dirs
  series_dirs,       \* upload_study(): sorted(series_dirs)
  series_idx,        \* upload_study(): position of the loop over series_dirs
  dcm_files,         \* upload_series(): sorted(series_dir.glob('*.dcm'))
  file_idx,          \* upload_series(): position of the loop over dcm_files
  file_list,
  uploaded_count,
  skipped_count,
  series_list,
  total_uploaded,
  total_skipped,
  uploaded_studies,
  failed_studies,
  ingest_log,        \* catalog writes of upload_study() since the running
                     \* sync() began, stamped with the position of sync()
  ingest_runs,       \* number of upload_dicoms.py invocations so far
  completed_runs,    \* number of them that ran to the end
  finished_dirs,     \* the study directories selected by the runs that
                     \* ran to the end and whose process is gone
  cleanup_pc,        \* position of the cleanup_firestore.py process
  cleanup_studies,   \* main(): the documents studies_ref.stream() yields
  cleanup_idx,       \* main(): position of the loop over them
  responses,         \* what the operator answered to each prompt so far
  cleanup_runs       \* number of cleanup_firestore.py invocations so far

syncVars ==
  <<sync_pc, dry_run, storage_studies, firestore_studies, orphaned_studies,
    missing_studies, existing_studies, visited, sync_log, summary, sync_runs>>

ingestVarsButLog ==
  <<ing_pc, study_dirs, study_idx, series_dirs, series_idx, dcm_files, file_idx,
    file_list, uploaded_count, skipped_count, series_list, total_uploaded,
    total_skipped, uploaded_studies, failed_studies, ingest_runs, completed_runs>>

ingestVars == <<ingestVarsButLog, ingest_log>>

cleanupVars == <<cleanup_pc, cleanup_studies, cleanup_idx, responses, cleanup_runs>>

vars ==
  <<bucket, sync_bucket, db, dicom_root, syncVars, ingestVars, finished_dirs,
    cleanupVars>>

\* ------------------------------------------------- sync_firestore.py ----
\* bucket.list_blobs(prefix='dicoms/'): names in lexicographic order
ListBlobs(b) == SortedStrings({name \in DOMAIN b : StartsWith(name, DicomsPrefix)})

\* one iteration of the loop of get_storage_studies over a recognised blob:
\* studies maps a study id to its series in insertion order
AddBlob(studies, parts) ==
  LET study_id == PyStr(parts[2])
      series_id == parts[3]
      filename == parts[4]
      old == IF study_id \in DOMAIN studies THEN studies[study_id] ELSE <<>>
      at == {i \in 1..Len(old) : old[i].series_id = series_id}
      new == IF at = {}
             THEN Append(old, [series_id |-> series_id, filenames |-> <<filename>>])
             ELSE LET i == CHOOSE i \in at : TRUE
                  IN [old EXCEPT ![i].filenames = Append(@, filename)]
  IN [k \in DOMAIN studies \cup {study_id} |->
        IF k = study_id THEN new ELSE studies[k]]

\* as RecognisedBlob, with the extension not looked at
RecognisedBlob_AnyExtension(name) == Len(Split(name)) = 4
\* the filter of get_storage_studies: 4 segments and a '.dcm' filename
RecognisedBlob(name) ==
  Len(Split(name)) = 4 /\ EndsWith(Split(name)[4], DotDcm)

RECURSIVE ScanBlobs(_, _)
ScanBlobs(blobs, studies) ==
  IF blobs = <<>> THEN studies
  ELSE ScanBlobs(Tail(blobs),
                 IF RecognisedBlob(blobs[1])
                 THEN AddBlob(studies, Split(blobs[1])) ELSE studies)

\* FirestoreStorageSync.get_storage_studies
get_storage_studies(b) == ScanBlobs(ListBlobs(b), <<>>)

RECURSIVE ScanDocs(_, _, _)
ScanDocs(ids, cat, studies) ==
  IF ids = <<>> THEN studies
  ELSE LET study_id == cat[ids[1]].study_id
           entry == [doc_id |-> ids[1], data |-> cat[ids[1]]]
       IN ScanDocs(Tail(ids), cat,
                   [k \in DOMAIN studies \cup {study_id} |->
                      IF k = study_id THEN entry ELSE studies[k]])

\* FirestoreStorageSync.get_firestore_studies: stream() yields the documents
\* in ascending order of document id; a later document replaces an earlier
\* one with the same study_id
get_firestore_studies(cat) == ScanDocs(SortedStrings(DOMAIN cat), cat, <<>>)

\* FirestoreStorageSync.download_dicom_metadata: a failed download or parse
\* gives the fallback values
download_dicom_metadata(b, study_id, series_id, filename) ==
  LET blob_path == BlobPath(study_id, series_id, filename)
  IN IF blob_path \in DOMAIN b
     THEN ParsedBlobMetadata(b[blob_path])
     ELSE [instance_number |-> 0, slice_location |-> 0, series_description |-> ""]

\* as SyncFileList, with a file left out when its header cannot be read
SyncFileList_SkipsUnreadable(b, study_id, series_id, filenames_sorted) ==
  LET Parses(f) ==
        LET blob_path == BlobPath(study_id, series_id, f)
        IN blob_path \in DOMAIN b /\ b[blob_path].readable
      kept == SelectSeq(filenames_sorted, Parses)
  IN [i \in 1..Len(kept) |->
        LET metadata == download_dicom_metadata(b, study_id, series_id, kept[i])
        IN [filename |-> kept[i],
            instance_number |-> metadata.instance_number,
            slice_location |-> metadata.slice_location]]
\* the file_list loop of create_study_metadata
SyncFileList(b, study_id, series_id, filenames_sorted) ==
  [i \in 1..Len(filenames_sorted) |->
     LET metadata == download_dicom_metadata(b, study_id, series_id, filenames_sorted[i])
     IN [filename |-> filenames_sorted[i],
         instance_number |-> metadata.instance_number,
         slice_location |-> metadata.slice_location]]

\* one entry of series_list in create_study_metadata
SyncSeriesRecord(b, study_id, series_id, filenames) ==
  LET filenames_sorted == SortedByNumericKey(filenames)
      first_file_metadata ==
        download_dicom_metadata(b, study_id, series_id, filenames_sorted[1])
  IN [series_id |-> PyStr(Str(series_id)),
      description |-> first_file_metadata.series_description,
      slice_count |-> Len(filenames),
      files |-> SyncFileList(b, study_id, series_id, filenames_sorted),
      storage_path |-> SeriesStoragePath(study_id, series_id)]

\* FirestoreStorageSync.create_study_metadata
create_study_metadata(b, study_id, series_dict) ==
  LET built ==
        [i \in 1..Len(series_dict) |->
           SyncSeriesRecord(b, study_id, PyStr(series_dict[i].series_id),
                            series_dict[i].filenames)]
  IN [study_id |-> PyStr(Str(study_id)),
      series |-> built,
      total_series |-> Len(built),
      total_slices |-> SumSeq([i \in 1..Len(built) |-> built[i].slice_count]),
      upload_date |-> "SERVER_TIMESTAMP",
      status |-> "ready"]

\* document(key).set(body): full overwrite
SetDoc(cat, key, body) ==
  [k \in DOMAIN cat \cup {key} |-> IF k = key THEN body ELSE cat[k]]

\* document(key).delete(): no error when the document is absent
DeleteDoc(cat, key) == [k \in DOMAIN cat \ {key} |-> cat[k]]

\* sync(): the three categories
Orphaned(fs, ss) == DOMAIN fs \ DOMAIN ss
\* as Missing, with the catalog keys not subtracted
Missing_AllStored(fs, ss) == DOMAIN ss
Missing(fs, ss) == DOMAIN ss \ DOMAIN fs
Existing(fs, ss) == DOMAIN ss \cap DOMAIN fs

\* sync(): storage_files of the analysis, the number of files of a study in
\* the storage scan
StorageFileCount(series_dict) ==
  SumSeq([i \in 1..Len(series_dict) |-> Len(series_dict[i].filenames)])

\* as OrphanDocId, with the document addressed by the study id
OrphanDocId_ByStudyId(fs, study_id) == Str(study_id)
\* sync(): the delete loop addresses the document by the id recorded by the
\* catalog scan
OrphanDocId(fs, study_id) == fs[study_id].doc_id

\* as UpdatesStudy, with a study left alone when its stored total_slices
\* equals the number of files in storage
UpdatesStudy_OnMismatch(fs, ss, study_id) ==
  StorageFileCount(ss[study_id]) # fs[study_id].data.total_slices
\* sync(): the update loop rebuilds every existing study; the file-count match
\* printed by the analysis is not consulted
UpdatesStudy(fs, ss, study_id) == TRUE

\* as DeletesFinished, with creates free to start at once
DeletesFinished_NotAwaited == TRUE
\* sync(): the delete loop is placed before the create loop
DeletesFinished == orphaned_studies \subseteq visited
\* sync(): the create loop is placed before the update loop
CreatesFinished == missing_studies \subseteq visited
\* as ReturnsBeforeApply, with the flag ignored
ReturnsBeforeApply_Never(dry) == FALSE
\* sync(): 'if dry_run: ... return'
ReturnsBeforeApply(dry) == dry

Counts(o, m, e) ==
  [orphaned |-> Cardinality(o), missing |-> Cardinality(m), existing |-> Cardinality(e)]

\* main() up to and including sync()'s get_storage_studies()
SyncScanStorage ==
  /\ sync_pc = "idle"
  /\ sync_runs < MaxSyncRuns
  /\ \E apply \in BOOLEAN : dry_run' = ~apply
  /\ storage_studies' = get_storage_studies(sync_bucket)
  /\ sync_pc' = "scanned_storage"
  /\ sync_runs' = sync_runs + 1
  /\ firestore_studies' = <<>>
  /\ orphaned_studies' = {} /\ missing_studies' = {} /\ existing_studies' = {}
  /\ visited' = {} /\ sync_log' = <<>>
  /\ ingest_log' = <<>>
  /\ UNCHANGED <<bucket, db, dicom_root, summary, ingestVarsButLog>>
  /\ UNCHANGED <<sync_bucket, finished_dirs, cleanupVars>>

\* sync(): get_firestore_studies(), the analysis, and the dry-run return
SyncScanFirestore ==
  /\ sync_pc = "scanned_storage"
  /\ LET fs == get_firestore_studies(db)
         o == Orphaned(fs, storage_studies)
         m == Missing(fs, storage_studies)
         e == Existing(fs, storage_studies)
     IN /\ firestore_studies' = fs
        /\ orphaned_studies' = o
        /\ missing_studies' = m
        /\ existing_studies' = e
        /\ IF ReturnsBeforeApply(dry_run)
           THEN /\ sync_pc' = "done"
                /\ summary' = [mode |-> "dry_run", counts |-> Counts(o, m, e)]
           ELSE /\ sync_pc' = "apply"
                /\ UNCHANGED summary
  /\ UNCHANGED <<bucket, db, dicom_root, dry_run, storage_studies, visited,
                 sync_log, sync_runs, ingestVars>>
  /\ UNCHANGED <<sync_bucket, finished_dirs, cleanupVars>>

\* sync(): one iteration of 'for study_id in orphaned_studies'
SyncDelete ==
  /\ sync_pc = "apply"
  /\ \E study_id \in orphaned_studies \ visited :
       LET doc_id == OrphanDocId(firestore_studies, study_id)
       IN /\ db' = DeleteDoc(db, doc_id)
          /\ sync_log' = Append(sync_log, [op |-> "delete", doc_id |-> doc_id,
                                           study_id |-> study_id])
          /\ visited' = visited \cup {study_id}
  /\ UNCHANGED <<bucket, dicom_root, sync_pc, dry_run, storage_studies,
                 firestore_studies, orphaned_studies, missing_studies,
                 existing_studies, summary, sync_runs, ingestVars>>
  /\ UNCHANGED <<sync_bucket, finished_dirs, cleanupVars>>

\* sync(): one iteration of 'for study_id in missing_studies'
SyncCreate ==
  /\ sync_pc = "apply"
  /\ DeletesFinished
  /\ \E study_id \in missing_studies \ visited :
       LET metadata == create_study_metadata(sync_bucket, study_id, storage_studies[study_id])
           doc_id == Str(study_id)
       IN /\ db' = SetDoc(db, doc_id, metadata)
          /\ sync_log' = Append(sync_log, [op |-> "create", doc_id |-> doc_id,
                                           study_id |-> study_id])
          /\ visited' = visited \cup {study_id}
  /\ UNCHANGED <<bucket, dicom_root, sync_pc, dry_run, storage_studies,
                 firestore_studies, orphaned_studies, missing_studies,
                 existing_studies, summary, sync_runs, ingestVars>>
  /\ UNCHANGED <<sync_bucket, finished_dirs, cleanupVars>>

\* sync(): one iteration of 'for study_id in existing_studies'
SyncUpdate ==
  /\ sync_pc = "apply"
  /\ DeletesFinished
  /\ CreatesFinished
  /\ \E study_id \in existing_studies \ visited :
       LET metadata == create_study_metadata(sync_bucket, study_id, storage_studies[study_id])
           doc_id == Str(study_id)
       IN /\ IF UpdatesStudy(firestore_studies, storage_studies, study_id)
             THEN /\ db' = SetDoc(db, doc_id, metadata)
                  /\ sync_log' = Append(sync_log, [op |-> "update", doc_id |-> doc_id,
                                                   study_id |-> study_id])
             ELSE UNCHANGED <<db, sync_log>>
          /\ visited' = visited \cup {study_id}
  /\ UNCHANGED <<bucket, dicom_root, sync_pc, dry_run, storage_studies,
                 firestore_studies, orphaned_studies, missing_studies,
                 existing_studies, summary, sync_runs, ingestVars>>
  /\ UNCHANGED <<sync_bucket, finished_dirs, cleanupVars>>

\* sync(): the three loops are exhausted, the final summary is printed
SyncComplete ==
  /\ sync_pc = "apply"
  /\ orphaned_studies \cup missing_studies \cup existing_studies \subseteq visited
  /\ sync_pc' = "done"
  /\ summary' = [mode |-> "applied",
                 counts |-> Counts(orphaned_studies, missing_studies, existing_studies)]
  /\ UNCHANGED <<bucket, db, dicom_root, dry_run, storage_studies,
                 firestore_studies, orphaned_studies, missing_studies,
                 existing_studies, visited, sync_log, sync_runs, ingestVars>>
  /\ UNCHANGED <<sync_bucket, finished_dirs, cleanupVars>>

\* main() returns and the process ends; the operator may invoke the script
\* again
SyncExit ==
  /\ sync_pc = "done"
  /\ sync_pc' = "idle"
  /\ storage_studies' = <<>>
  /\ firestore_studies' = <<>>
  /\ orphaned_studies' = {} /\ missing_studies' = {} /\ existing_studies' = {}
  /\ visited' = {} /\ sync_log' = <<>>
  /\ ingest_log' = <<>>
  /\ UNCHANGED <<bucket, db, dicom_root, dry_run, summary, sync_runs,
                 ingestVarsButLog>>
  /\ UNCHANGED <<sync_bucket, finished_dirs, cleanupVars>>

SyncNext ==
  \/ SyncScanStorage \/ SyncScanFirestore \/ SyncDelete \/ SyncCreate
  \/ SyncUpdate \/ SyncComplete \/ SyncExit

\* --------------------------------------------------- upload_dicoms.py ----
\* upload_study(): study_id = int(study_dir.name)
StudyIdOf(study_dir) == PyInt(IntOf(study_dir))
\* upload_study(): series_id = int(series_dir.name)
SeriesIdOf(series_dir) == PyInt(IntOf(series_dir))

\* upload_series(): sorted(series_dir.glob('*.dcm'))
GlobDcm(series_dir_files) ==
  SortedStrings({f \in DOMAIN series_dir_files : EndsWith(f, DotDcm)})

\* as Uploads, with the existence check left out
Uploads_Always(b, storage_path) == TRUE
\* upload_dicom_file(): uploads unless blob.exists()
Uploads(b, storage_path) == storage_path \notin DOMAIN b

\* as upload_dicom_file, with nothing stored
upload_dicom_file_NotStored(b, dcm, storage_path) == b
\* upload_dicom_file(): the bucket afterwards
upload_dicom_file(b, dcm, storage_path) ==
  IF Uploads(b, storage_path)
  THEN [k \in DOMAIN b \cup {storage_path} |-> IF k = storage_path THEN dcm ELSE b[k]]
  ELSE b

\* upload_series(): the entry appended to file_list
IngestFileEntry(study_id, series_id, filename, dcm) ==
  LET metadata == get_dicom_metadata(dcm)
  IN [filename |-> filename,
      storage_path |-> BlobPath(study_id, series_id, filename),
      instance_number |-> metadata.instance_number,
      slice_location |-> metadata.slice_location,
      file_size |-> dcm.size]

\* upload_series(): the returned series_info
IngestSeriesInfo(study_id, series_id, files, first_dcm, flist, up, skip) ==
  [series_id |-> series_id,
   description |-> get_dicom_metadata(first_dcm).series_description,
   slice_count |-> Len(files),
   files |-> flist,
   storage_path |-> SeriesStoragePath(study_id, series_id),
   uploaded_count |-> up,
   skipped_count |-> skip]

\* as IngestStudyMetadata, with total_slices counting the uploaded files only
IngestStudyMetadata_CountsUploaded(study_id, slist) ==
  [study_id |-> study_id,
   series |-> slist,
   total_series |-> Len(slist),
   total_slices |-> SumSeq([i \in 1..Len(slist) |-> slist[i].uploaded_count]),
   upload_date |-> "utcnow",
   status |-> "ready"]
\* upload_study(): study_metadata
IngestStudyMetadata(study_id, slist) ==
  [study_id |-> study_id,
   series |-> slist,
   total_series |-> Len(slist),
   total_slices |-> SumSeq([i \in 1..Len(slist) |-> slist[i].slice_count]),
   upload_date |-> "utcnow",
   status |-> "ready"]

\* as SavesDocument, with the save left out when no file was uploaded
SavesDocument_IfUploaded(up, skip) == up > 0
\* upload_study(): the document is saved whatever was uploaded or skipped
SavesDocument(up, skip) == TRUE

CurStudyDir == study_dirs[study_idx]
CurSeriesDir == series_dirs[series_idx]
CurStudyId == StudyIdOf(CurStudyDir)
CurSeriesId == SeriesIdOf(CurSeriesDir)

NoStudyLocals ==
  /\ series_dirs' = <<>> /\ series_idx' = 1 /\ series_list' = <<>>
  /\ total_uploaded' = 0 /\ total_skipped' = 0
NoSeriesLocals ==
  /\ dcm_files' = <<>> /\ file_idx' = 1 /\ file_list' = <<>>
  /\ uploaded_count' = 0 /\ skipped_count' = 0

\* main(): max_studies = 3 if trial_mode else None
TrialLimit == 3

\* upload_studies(): study_dirs[:max_studies] when max_studies is set, of the
\* directories in the order iterdir() yields them, an order the file system
\* chooses
SelectedDirs(dirs, trial_mode) ==
  IF trial_mode
  THEN {S \in SUBSET dirs :
          Cardinality(S) = IF Cardinality(dirs) < TrialLimit
                           THEN Cardinality(dirs) ELSE TrialLimit}
  ELSE {dirs}

\* upload_studies(): in trial mode, response.lower() != 'yes' ends the process
CancelsUpload(trial_mode, response) ==
  trial_mode /\ PyLower(response) # <<"y", "e", "s">>

\* main() and upload_studies() up to the loop over sorted(study_dirs); a run
\* cancelled at the prompt leaves no trace and is not counted in ingest_runs
IngestBegin ==
  /\ ing_pc = "idle"
  /\ ingest_runs < MaxIngestRuns
  /\ DOMAIN dicom_root # {}
  /\ \E trial_mode \in BOOLEAN, response \in Responses :
       \E selected \in SelectedDirs(DOMAIN dicom_root, trial_mode) :
         IF CancelsUpload(trial_mode, response)
         THEN UNCHANGED vars
         ELSE /\ ingest_runs' = ingest_runs + 1
              /\ study_dirs' = SortedStrings(selected)
              /\ study_idx' = 1
              /\ uploaded_studies' = <<>>
              /\ failed_studies' = <<>>
              /\ ing_pc' = "study"
              /\ NoStudyLocals /\ NoSeriesLocals
              /\ UNCHANGED <<bucket, db, dicom_root, syncVars, ingest_log,
                             completed_runs>>
              /\ UNCHANGED <<sync_bucket, finished_dirs, cleanupVars>>

\* as StudyFails, with the loop over the studies left at the failure
StudyFails_Aborts ==
  /\ failed_studies' = Append(failed_studies, CurStudyDir)
  /\ study_idx' = Len(study_dirs) + 1
  /\ ing_pc' = "study"
  /\ NoStudyLocals /\ NoSeriesLocals
  /\ UNCHANGED <<uploaded_studies>>
\* upload_studies(): upload_study() raised or returned None; the except
\* clause records the study and the loop goes on
StudyFails ==
  /\ failed_studies' = Append(failed_studies, CurStudyDir)
  /\ study_idx' = study_idx + 1
  /\ ing_pc' = "study"
  /\ NoStudyLocals /\ NoSeriesLocals
  /\ UNCHANGED <<uploaded_studies>>

\* upload_study() up to the loop over sorted(series_dirs)
IngestStudyBegin ==
  /\ ing_pc = "study"
  /\ study_idx <= Len(study_dirs)
  /\ IF ~IsIntLiteral(CurStudyDir) \/ DOMAIN dicom_root[CurStudyDir] = {}
     THEN StudyFails
     ELSE /\ series_dirs' = SortedStrings(DOMAIN dicom_root[CurStudyDir])
          /\ series_idx' = 1
          /\ series_list' = <<>>
          /\ total_uploaded' = 0 /\ total_skipped' = 0
          /\ ing_pc' = "series"
          /\ NoSeriesLocals
          /\ UNCHANGED <<study_idx, uploaded_studies, failed_studies>>
  /\ UNCHANGED <<bucket, db, dicom_root, syncVars, study_dirs, ingest_log,
                 ingest_runs, completed_runs>>
  /\ UNCHANGED <<sync_bucket, finished_dirs, cleanupVars>>

\* upload_study(): int(series_dir.name) and upload_series() up to its loop
IngestSeriesBegin ==
  /\ ing_pc = "series"
  /\ series_idx <= Len(series_dirs)
  /\ IF ~IsIntLiteral(CurSeriesDir)
     THEN StudyFails
     ELSE LET files == GlobDcm(dicom_root[CurStudyDir][CurSeriesDir])
          IN /\ IF files = <<>>
                THEN /\ series_idx' = series_idx + 1
                     /\ ing_pc' = "series"
                     /\ dcm_files' = <<>>
                ELSE /\ series_idx' = series_idx
                     /\ ing_pc' = "file"
                     /\ dcm_files' = files
             /\ file_idx' = 1 /\ file_list' = <<>>
             /\ uploaded_count' = 0 /\ skipped_count' = 0
             /\ UNCHANGED <<study_idx, series_dirs, series_list, total_uploaded,
                            total_skipped, uploaded_studies, failed_studies>>
  /\ UNCHANGED <<bucket, db, dicom_root, syncVars, study_dirs, ingest_log,
                 ingest_runs, completed_runs>>
  /\ UNCHANGED <<sync_bucket, finished_dirs, cleanupVars>>

\* upload_series(): one iteration of the loop over dcm_files
IngestFile ==
  /\ ing_pc = "file"
  /\ file_idx <= Len(dcm_files)
  /\ LET filename == dcm_files[file_idx]
         dcm == dicom_root[CurStudyDir][CurSeriesDir][filename]
         storage_path == BlobPath(CurStudyId, CurSeriesId, filename)
         uploaded == Uploads(bucket, storage_path)
     IN /\ bucket' = upload_dicom_file(bucket, dcm, storage_path)
        /\ uploaded_count' = IF uploaded THEN uploaded_count + 1 ELSE uploaded_count
        /\ skipped_count' = IF uploaded THEN skipped_count ELSE skipped_count + 1
        /\ file_list' = Append(file_list,
                               IngestFileEntry(CurStudyId, CurSeriesId, filename, dcm))
  /\ file_idx' = file_idx + 1
  /\ UNCHANGED <<db, dicom_root, syncVars, ing_pc, study_dirs, study_idx,
                 series_dirs, series_idx, dcm_files, series_list, total_uploaded,
                 total_skipped, uploaded_studies, failed_studies, ingest_log,
                 ingest_runs, completed_runs>>
  /\ UNCHANGED <<sync_bucket, finished_dirs, cleanupVars>>

\* upload_series() returns series_info, upload_study() appends it
IngestSeriesEnd ==
  /\ ing_pc = "file"
  /\ file_idx > Len(dcm_files)
  /\ series_list' =
       Append(series_list,
              IngestSeriesInfo(CurStudyId, CurSeriesId, dcm_files,
                               dicom_root[CurStudyDir][CurSeriesDir][dcm_files[1]],
                               file_list, uploaded_count, skipped_count))
  /\ total_uploaded' = total_uploaded + uploaded_count
  /\ total_skipped' = total_skipped + skipped_count
  /\ series_idx' = series_idx + 1
  /\ ing_pc' = "series"
  /\ UNCHANGED <<bucket, db, dicom_root, syncVars, study_dirs, study_idx,
                 series_dirs, dcm_files, file_idx, file_list, uploaded_count,
                 skipped_count, uploaded_studies, failed_studies, ingest_log,
                 ingest_runs, completed_runs>>
  /\ UNCHANGED <<sync_bucket, finished_dirs, cleanupVars>>

\* upload_study(): study_metadata is built and saved to Firestore
IngestStudySave ==
  /\ ing_pc = "series"
  /\ series_idx > Len(series_dirs)
  /\ LET study_metadata == IngestStudyMetadata(CurStudyId, series_list)
         doc_id == Str(CurStudyId)
     IN /\ IF SavesDocument(total_uploaded, total_skipped)
           THEN /\ db' = SetDoc(db, doc_id, study_metadata)
                /\ ingest_log' =
                     IF sync_pc \in {"scanned_storage", "apply"}
                     THEN Append(ingest_log,
                                 [doc_id |-> doc_id,
                                  fresh |-> doc_id \notin DOMAIN db,
                                  phase |-> sync_pc,
                                  at |-> Len(sync_log)])
                     ELSE ingest_log
           ELSE UNCHANGED <<db, ingest_log>>
        /\ uploaded_studies' = Append(uploaded_studies, study_metadata)
  /\ study_idx' = study_idx + 1
  /\ ing_pc' = "study"
  /\ UNCHANGED <<bucket, dicom_root, syncVars, study_dirs, series_dirs,
                 series_idx, dcm_files, file_idx, file_list, uploaded_count,
                 skipped_count, series_list, total_uploaded, total_skipped,
                 failed_studies, ingest_runs, completed_runs>>
  /\ UNCHANGED <<sync_bucket, finished_dirs, cleanupVars>>

\* upload_studies(): the loop over the studies is exhausted
IngestEnd ==
  /\ ing_pc = "study"
  /\ study_idx > Len(study_dirs)
  /\ ing_pc' = "done"
  /\ completed_runs' = completed_runs + 1
  /\ UNCHANGED <<bucket, db, dicom_root, syncVars, study_dirs, study_idx,
                 series_dirs, series_idx, dcm_files, file_idx, file_list,
                 uploaded_count, skipped_count, series_list, total_uploaded,
                 total_skipped, uploaded_studies, failed_studies, ingest_log,
                 ingest_runs>>
  /\ UNCHANGED <<sync_bucket, finished_dirs, cleanupVars>>

\* the process ends, by returning from main() or by being killed between two
\* calls; nothing of it survives but what it wrote to the bucket and to
\* Firestore, and the operator may run the script again
IngestExit ==
  /\ ing_pc \in {"study", "series", "file", "done"}
  /\ ing_pc' = "idle"
  /\ study_dirs' = <<>> /\ study_idx' = 1
  /\ uploaded_studies' = <<>> /\ failed_studies' = <<>>
  /\ NoStudyLocals /\ NoSeriesLocals
  /\ finished_dirs' = IF ing_pc = "done"
                      THEN finished_dirs \cup {study_dirs[i] : i \in 1..Len(study_dirs)}
                      ELSE finished_dirs
  /\ UNCHANGED <<bucket, db, dicom_root, syncVars, ingest_log, ingest_runs,
                 completed_runs>>
  /\ UNCHANGED <<sync_bucket, cleanupVars>>

IngestNext ==
  \/ IngestBegin \/ IngestStudyBegin \/ IngestSeriesBegin \/ IngestFile
  \/ IngestSeriesEnd \/ IngestStudySave \/ IngestEnd

\* ------------------------------------------------ cleanup_firestore.py ----
\* as ConfirmsDelete, with the answer compared as typed
ConfirmsDelete_AsTyped(response) == response = <<"y", "e", "s">>
\* main(): response.lower() == 'yes'
ConfirmsDelete(response) == PyLower(response) = <<"y", "e", "s">>

\* studies_ref.stream(): the documents of the collection in ascending order
\* of document id
StreamDocs(cat) ==
  LET ids == SortedStrings(DOMAIN cat)
  IN [i \in 1..Len(ids) |-> [id |-> ids[i], data |-> cat[ids[i]]]]

\* main() up to the loop over the streamed documents
CleanupBegin ==
  /\ cleanup_pc = "idle"
  /\ cleanup_runs < MaxCleanupRuns
  /\ cleanup_runs' = cleanup_runs + 1
  /\ cleanup_studies' = StreamDocs(db)
  /\ cleanup_idx' = 1
  /\ responses' = <<>>
  /\ cleanup_pc' = "prompt"
  /\ UNCHANGED <<bucket, sync_bucket, finished_dirs, db, dicom_root, syncVars, ingestVars>>

\* main(): one iteration of the loop, the prompt and the delete on 'yes'
CleanupPrompt ==
  /\ cleanup_pc = "prompt"
  /\ cleanup_idx <= Len(cleanup_studies)
  /\ \E response \in Responses :
       LET study_doc == cleanup_studies[cleanup_idx]
       IN /\ db' = IF ConfirmsDelete(response) THEN DeleteDoc(db, study_doc.id) ELSE db
          /\ responses' = Append(responses, [doc_id |-> study_doc.id,
                                             response |-> response])
  /\ cleanup_idx' = cleanup_idx + 1
  /\ UNCHANGED <<bucket, sync_bucket, finished_dirs, dicom_root, syncVars, ingestVars, cleanup_pc,
                 cleanup_studies, cleanup_runs>>

\* main(): the loop is exhausted
CleanupEnd ==
  /\ cleanup_pc = "prompt"
  /\ cleanup_idx > Len(cleanup_studies)
  /\ cleanup_pc' = "done"
  /\ UNCHANGED <<bucket, sync_bucket, finished_dirs, db, dicom_root, syncVars, ingestVars, cleanup_studies,
                 cleanup_idx, responses, cleanup_runs>>

\* main() returns and the process ends; the operator may run it again
CleanupExit ==
  /\ cleanup_pc = "done"
  /\ cleanup_pc' = "idle"
  /\ cleanup_studies' = <<>> /\ cleanup_idx' = 1
  /\ responses' = <<>>
  /\ UNCHANGED <<bucket, sync_bucket, finished_dirs, db, dicom_root, syncVars, ingestVars, cleanup_runs>>

CleanupNext == CleanupBegin \/ CleanupPrompt \/ CleanupEnd \/ CleanupExit

Init ==
  /\ bucket \in UploadBuckets
  /\ sync_bucket \in SyncBuckets
  /\ db \in Catalogs
  /\ dicom_root \in Trees
  /\ sync_pc = "idle"
  /\ dry_run = TRUE
  /\ storage_studies = <<>>
  /\ firestore_studies = <<>>
  /\ orphaned_studies = {} /\ missing_studies = {} /\ existing_studies = {}
  /\ visited = {}
  /\ sync_log = <<>>
  /\ summary = [mode |-> "none", counts |-> Counts({}, {}, {})]
  /\ sync_runs = 0
  /\ ing_pc = "idle"
  /\ study_dirs = <<>> /\ study_idx = 1
  /\ series_dirs = <<>> /\ series_idx = 1
  /\ dcm_files = <<>> /\ file_idx = 1
  /\ file_list = <<>> /\ uploaded_count = 0 /\ skipped_count = 0
  /\ series_list = <<>> /\ total_uploaded = 0 /\ total_skipped = 0
  /\ uploaded_studies = <<>> /\ failed_studies = <<>>
  /\ ingest_log = <<>>
  /\ ingest_runs = 0
  /\ completed_runs = 0
  /\ finished_dirs = {}
  /\ cleanup_pc = "idle"
  /\ cleanup_studies = <<>> /\ cleanup_idx = 1
  /\ responses = <<>>
  /\ cleanup_runs = 0

\* reconciliation runs interleaved with one ingestion run, trial or full,
\* that is not run again; ingestion run again after it ended or was killed
\* is SpecIngest, cleanup is SpecCleanup
Next == SyncNext \/ IngestNext

Spec == Init /\ [][Next]_vars

\* the reconciliation process alone
SpecSync == Init /\ [][SyncNext]_vars

IngestOrExit == IngestNext \/ IngestExit

\* the ingestion process alone, run again after it ended or was killed
SpecIngest == Init /\ [][IngestOrExit]_vars

\* the cleanup process alone
SpecCleanup == Init /\ [][CleanupNext]_vars

\* the filenames of the series handed to create_study_metadata() on its own
BuildFiles == {F1, Fa1, F1a, Fx1, F2, F10}

\* sync() at the start of its create loop for one study of one series: the
\* bucket holds a set of files of the series and storage_studies is what
\* get_storage_studies() returned for it
InitBuild ==
  /\ \E S \in SUBSET BuildFiles \ {{}} :
       sync_bucket = [name \in {BlobPath(PyStr(N1), PyStr(N1), f) : f \in S} |->
                        Dcm({Len(name)}, {}, {"T2"}, 1)]
  /\ storage_studies = get_storage_studies(sync_bucket)
  /\ bucket = <<>>
  /\ db = <<>>
  /\ dicom_root = <<>>
  /\ sync_pc = "apply"
  /\ dry_run = FALSE
  /\ firestore_studies = <<>>
  /\ orphaned_studies = {} /\ missing_studies = {PyStr(N1)} /\ existing_studies = {}
  /\ visited = {}
  /\ sync_log = <<>>
  /\ summary = [mode |-> "none", counts |-> Counts({}, {}, {})]
  /\ sync_runs = 1
  /\ ing_pc = "idle"
  /\ study_dirs = <<>> /\ study_idx = 1
  /\ series_dirs = <<>> /\ series_idx = 1
  /\ dcm_files = <<>> /\ file_idx = 1
  /\ file_list = <<>> /\ uploaded_count = 0 /\ skipped_count = 0
  /\ series_list = <<>> /\ total_uploaded = 0 /\ total_skipped = 0
  /\ uploaded_studies = <<>> /\ failed_studies = <<>>
  /\ ingest_log = <<>>
  /\ ingest_runs = 0
  /\ completed_runs = 0
  /\ finished_dirs = {}
  /\ cleanup_pc = "idle"
  /\ cleanup_studies = <<>> /\ cleanup_idx = 1
  /\ responses = <<>>
  /\ cleanup_runs = 0

BuildNext == SyncCreate \/ SyncComplete

\* create_study_metadata() applied to the scan of a series, whatever files
\* the series holds
SpecBuild == InitBuild /\ [][BuildNext]_vars

\* ------------------------------------------------------------ claims ----
Analysed == sync_pc \in {"apply", "done"}
StorageKeys == DOMAIN storage_studies
CatalogKeys == DOMAIN firestore_studies
LogIndexes == 1..Len(sync_log)

\* C1: once sync() has analysed its two scans, orphaned, missing and existing
\* are pairwise disjoint and their union is keys(storage) \cup keys(catalog).
C1_Completeness ==
  Analysed =>
    /\ orphaned_studies \cup missing_studies \cup existing_studies
         = StorageKeys \cup CatalogKeys
    /\ orphaned_studies \cap missing_studies = {}
    /\ orphaned_studies \cap existing_studies = {}
    /\ missing_studies \cap existing_studies = {}

\* C1 witness: a scan that puts a study into each of the three categories
C1_Witness ==
  /\ Analysed
  /\ orphaned_studies # {} /\ missing_studies # {} /\ existing_studies # {}

\* C2: after sync(dry_run=False) has run to completion with no other writer,
\* the document ids of the collection are exactly the study ids of storage.
C2_KeySetEqualsStorage ==
  (sync_pc = "done" /\ ~dry_run) =>
    DOMAIN db = {k.s : k \in DOMAIN get_storage_studies(sync_bucket)}

\* C3: a step of sync() with dry_run set never changes the collection, and
\* when it returns the summary holds the sizes of the three categories.
C3_DryRunFrame ==
  [][(SyncNext /\ dry_run') =>
       /\ db' = db
       /\ sync_log' = <<>>
       /\ sync_pc' = "done" =>
            summary' = [mode |-> "dry_run",
                        counts |-> Counts(orphaned_studies', missing_studies',
                                          existing_studies')]]_vars

\* C3 witness: a dry run has returned with a study in each category
C3_Witness ==
  /\ sync_pc = "done" /\ dry_run
  /\ summary.mode = "dry_run"
  /\ summary.counts = [orphaned |-> 1, missing |-> 1, existing |-> 1]

OpRank(op) == CASE op = "delete" -> 1 [] op = "create" -> 2 [] op = "update" -> 3

\* C4: the mutations of one sync() are issued as deletes, then creates, then
\* updates: nothing is created or updated before every orphan is deleted, and
\* nothing is updated before every missing study is created.
C4_FixedOrder ==
  /\ \A i \in LogIndexes : \A j \in LogIndexes :
       i < j => OpRank(sync_log[i].op) <= OpRank(sync_log[j].op)
  /\ (\E i \in LogIndexes : sync_log[i].op \in {"create", "update"}) =>
       \A study_id \in CatalogKeys \ StorageKeys :
         \E i \in LogIndexes :
           sync_log[i].op = "delete" /\ sync_log[i].study_id = study_id
  /\ (\E i \in LogIndexes : sync_log[i].op = "update") =>
       \A study_id \in StorageKeys \ CatalogKeys :
         \E i \in LogIndexes :
           sync_log[i].op = "create" /\ sync_log[i].study_id = study_id

\* C4 witness: an applied sync() that deleted, created and updated
C4_Witness ==
  /\ sync_pc = "done" /\ ~dry_run
  /\ \A op \in {"delete", "create", "update"} :
       \E i \in LogIndexes : sync_log[i].op = op

\* C5: an applied sync() issues exactly one mutation per study id of the two
\* scans: a delete at the scanned document id for an orphan, a create for a
\* missing study, an update for an existing one whatever its stored counts.
C5_OneMutationEach ==
  (sync_pc = "done" /\ ~dry_run) =>
    /\ Len(sync_log) = Cardinality(StorageKeys \cup CatalogKeys)
    /\ \A study_id \in StorageKeys \cup CatalogKeys :
         Cardinality({i \in LogIndexes : sync_log[i].study_id = study_id}) = 1
    /\ \A i \in LogIndexes :
         LET e == sync_log[i]
         IN /\ e.study_id \in StorageKeys \cup CatalogKeys
            /\ e.study_id \in CatalogKeys \ StorageKeys =>
                 e.op = "delete" /\ e.doc_id = firestore_studies[e.study_id].doc_id
            /\ e.study_id \in StorageKeys \ CatalogKeys =>
                 e.op = "create" /\ e.doc_id = Str(e.study_id)
            /\ e.study_id \in StorageKeys \cap CatalogKeys =>
                 e.op = "update" /\ e.doc_id = Str(e.study_id)

\* C5 witness: an applied sync() that deleted, created, and updated a study
\* whose stored total_slices already equalled the number of files in storage
C5_Witness ==
  /\ sync_pc = "done" /\ ~dry_run
  /\ \E i \in LogIndexes : sync_log[i].op = "delete"
  /\ \E i \in LogIndexes : sync_log[i].op = "create"
  /\ \E i \in LogIndexes :
       /\ sync_log[i].op = "update"
       /\ firestore_studies[sync_log[i].study_id].data.total_slices
            = StorageFileCount(storage_studies[sync_log[i].study_id])

\* the files a document lists, as (series id as text, filename) pairs
ListedFiles(doc) ==
  UNION {{<<Str(doc.series[i].series_id), doc.series[i].files[j].filename>> :
            j \in 1..Len(doc.series[i].files)} : i \in 1..Len(doc.series)}

\* the blobs of a study that the storage scan recognises, as such pairs
StoredFiles(b, study_key) ==
  {<<Split(name)[3], Split(name)[4]>> :
     name \in {n \in DOMAIN b : /\ StartsWith(n, DicomsPrefix)
                                /\ RecognisedBlob(n)
                                /\ Split(n)[2] = study_key}}

\* the files of a study in the storage scan of the running sync(), as such
\* pairs
ScannedFiles(study_key) ==
  IF PyStr(study_key) \notin StorageKeys THEN {}
  ELSE LET sd == storage_studies[PyStr(study_key)]
       IN UNION {{<<sd[i].series_id, sd[i].filenames[j]>> :
                    j \in 1..Len(sd[i].filenames)} : i \in 1..Len(sd)}

\* the storage paths a document lists
ListedPaths(doc) ==
  UNION {{doc.series[i].files[n].storage_path : n \in 1..Len(doc.series[i].files)} :
           i \in 1..Len(doc.series)}

\* C6: a study that upload_study() has ingested (its document is in the
\* catalog scan, the files it lists are in the bucket upload_dicoms.py wrote
\* them to) is classified as existing by sync(), and sync() issues no delete
\* for its document.
C6_IngestedIsExisting ==
  Analysed =>
    \A study_id \in CatalogKeys :
      LET e == firestore_studies[study_id]
      IN (/\ e.data.upload_date = "utcnow"
          /\ e.data.total_slices > 0
          /\ e.doc_id = Str(e.data.study_id)
          /\ ListedPaths(e.data) \subseteq DOMAIN bucket)
         => /\ study_id \in existing_studies
            /\ \A i \in LogIndexes :
                 ~(sync_log[i].op = "delete" /\ sync_log[i].doc_id = e.doc_id)

\* every series_info the running upload has produced so far
SeriesInfos ==
  {series_list[i] : i \in 1..Len(series_list)} \cup
  UNION {{uploaded_studies[k].series[i] : i \in 1..Len(uploaded_studies[k].series)} :
           k \in 1..Len(uploaded_studies)}

\* the running upload was started after an earlier one ran to the end
IsRerun ==
  \/ ing_pc \in {"study", "series", "file"} /\ completed_runs >= 1
  \/ ing_pc = "done" /\ completed_runs >= 2

\* every series_info the running upload has produced so far for the study
\* directories that an earlier run, run to the end, had selected
RerunInfos ==
  (IF ing_pc \in {"series", "file"} /\ CurStudyDir \in finished_dirs
   THEN {series_list[i] : i \in 1..Len(series_list)} ELSE {}) \cup
  UNION {{uploaded_studies[k].series[i] : i \in 1..Len(uploaded_studies[k].series)} :
           k \in {n \in 1..Len(uploaded_studies) :
                     Str(uploaded_studies[n].study_id) \in finished_dirs}}

\* C7: upload_series() uploads a file iff no object exists at its destination
\* and counts it as uploaded or skipped accordingly, uploaded_count +
\* skipped_count is the number of files of the series, and a run uploads
\* nothing and skips all for a study directory that an earlier run, run to
\* the end, had selected.
C7_SkipOnExists ==
  /\ [](/\ ing_pc = "file" => uploaded_count + skipped_count = file_idx - 1
        /\ \A info \in SeriesInfos :
             /\ info.uploaded_count + info.skipped_count = info.slice_count
             /\ info.slice_count = Len(info.files)
        /\ (ing_pc \in {"series", "file"} /\ CurStudyDir \in finished_dirs) =>
             uploaded_count = 0 /\ total_uploaded = 0
        /\ \A info \in RerunInfos :
             info.uploaded_count = 0 /\ info.skipped_count = info.slice_count)
  /\ [][IngestFile =>
          LET storage_path == BlobPath(CurStudyId, CurSeriesId, dcm_files[file_idx])
          IN IF storage_path \in DOMAIN bucket
             THEN /\ bucket' = bucket
                  /\ uploaded_count' = uploaded_count
                  /\ skipped_count' = skipped_count + 1
             ELSE /\ DOMAIN bucket' = DOMAIN bucket \cup {storage_path}
                  /\ \A k \in DOMAIN bucket : bucket'[k] = bucket[k]
                  /\ uploaded_count' = uploaded_count + 1
                  /\ skipped_count' = skipped_count]_vars

\* C7 witness: a second run has ended and has skipped both files of a series
C7_Witness ==
  /\ IsRerun /\ ing_pc = "done"
  /\ \E info \in RerunInfos : info.skipped_count = 2 /\ info.uploaded_count = 0

\* upload_study() neither raises nor returns None for this study directory
Processable(d) ==
  /\ IsIntLiteral(d)
  /\ DOMAIN dicom_root[d] # {}
  /\ \A sd \in DOMAIN dicom_root[d] : IsIntLiteral(sd)

\* the .dcm files of a local series directory
LocalDcm(d, sd) == {f \in DOMAIN dicom_root[d][sd] : EndsWith(f, DotDcm)}

\* the series and files of a local study directory, as ListedFiles gives them
LocalFiles(d) ==
  UNION {{<<Str(SeriesIdOf(sd)), f>> : f \in LocalDcm(d, sd)} :
           sd \in DOMAIN dicom_root[d]}

\* the study directories the running upload selected
SelectedStudies == {study_dirs[i] : i \in 1..Len(study_dirs)}

\* C8: whenever an ingestion run ends, however many earlier runs were killed
\* and wherever, every .dcm file of every study it selected (every study of
\* the directory unless --trial was given) and can process has an object
\* at its destination, and the study's document, written by upload_study(),
\* lists exactly the study's non-empty series and their files.
C8_Convergent ==
  ing_pc = "done" =>
    \A d \in SelectedStudies :
      Processable(d) =>
        /\ \A sd \in DOMAIN dicom_root[d] : \A f \in LocalDcm(d, sd) :
             /\ BlobPath(StudyIdOf(d), SeriesIdOf(sd), f) \in DOMAIN bucket
        /\ Str(StudyIdOf(d)) \in DOMAIN db
        /\ LET doc == db[Str(StudyIdOf(d))]
           IN /\ doc.upload_date = "utcnow"
              /\ doc.study_id = StudyIdOf(d)
              /\ ListedFiles(doc) = LocalFiles(d)
              /\ {doc.series[i].series_id : i \in 1..Len(doc.series)}
                   = {SeriesIdOf(sd) : sd \in {x \in DOMAIN dicom_root[d] :
                                                 LocalDcm(d, x) # {}}}
              /\ doc.total_series = Len(doc.series)
              /\ doc.total_slices = Cardinality(LocalFiles(d))
              /\ \A i \in 1..Len(doc.series) :
                   /\ doc.series[i].slice_count = Len(doc.series[i].files)
                   /\ \A j \in 1..Len(doc.series[i].files) :
                        \A k \in 1..Len(doc.series[i].files) :
                          j # k => doc.series[i].files[j].filename
                                     # doc.series[i].files[k].filename

\* C8 witness: the first run over TreeA and an empty bucket was killed after
\* one upload, the second run skipped that file, uploaded the other and ended
C8_Witness ==
  /\ ing_pc = "done" /\ ingest_runs = 2 /\ completed_runs = 1
  /\ dicom_root = TreeA
  /\ SelectedStudies = DOMAIN dicom_root
  /\ Cardinality(DOMAIN bucket) = 2
  /\ bucket[BlobPath(PyInt(1), PyInt(1), F2)] = TreeA[N1][N1][F2]
  /\ \E info \in SeriesInfos : info.uploaded_count = 1 /\ info.skipped_count = 1

\* the bytes in the bucket of sync() of every file a document of
\* upload_study() lists are the bytes of the local file, and that bucket
\* holds no other file of the study
StoreHoldsExactly(up) ==
  /\ StoredFiles(sync_bucket, Str(up.study_id)) = ListedFiles(up)
  /\ \A i \in 1..Len(up.series) : \A j \in 1..Len(up.series[i].files) :
       LET f == up.series[i].files[j]
       IN /\ f.storage_path \in DOMAIN sync_bucket
          /\ sync_bucket[f.storage_path]
               = dicom_root[Str(up.study_id)][Str(up.series[i].series_id)][f.filename]

\* what the two builders are to agree on
CanonicalSeries(sr) ==
  [series_id |-> sr.series_id,
   description |-> sr.description,
   slice_count |-> sr.slice_count,
   files |-> [j \in 1..Len(sr.files) |->
                [filename |-> sr.files[j].filename,
                 instance_number |-> sr.files[j].instance_number,
                 slice_location |-> sr.files[j].slice_location]]]
Canonical(doc) ==
  [study_id |-> doc.study_id,
   series |-> [i \in 1..Len(doc.series) |-> CanonicalSeries(doc.series[i])],
   total_series |-> doc.total_series,
   total_slices |-> doc.total_slices,
   status |-> doc.status]

\* C9: when the bucket sync() reads holds exactly the local files of a study,
\* the document
\* upload_study() built for it and the document sync() built for it from the
\* same files agree on study_id, series ids, file order, per-file header
\* fields, description and counts.
C9_SameDocument ==
  \A k \in 1..Len(uploaded_studies) :
    LET up == uploaded_studies[k]
        key == Str(up.study_id)
    IN (/\ key \in DOMAIN db
        /\ db[key].upload_date = "SERVER_TIMESTAMP"
        /\ StoreHoldsExactly(up)
        /\ ListedFiles(db[key]) = ListedFiles(up))
       => Canonical(db[key]) = Canonical(up)

\* C10 as claimed: a document that upload_study() creates after the storage
\* scan of a running sync(), for a study the storage scan did not see, is not
\* addressed by any later mutation of that sync().
C10_InvisibleAfterStorageScan ==
  \A k \in 1..Len(ingest_log) :
    LET w == ingest_log[k]
    IN (w.fresh /\ PyStr(w.doc_id) \notin StorageKeys)
       => \A j \in LogIndexes : j > w.at => sync_log[j].doc_id # w.doc_id

\* C10 as amended: a document that upload_study() creates after both scans of
\* a running sync(), for a study the storage scan did not see, is not
\* addressed by any later mutation of that sync().
C10_InvisibleAfterCatalogScan ==
  \A k \in 1..Len(ingest_log) :
    LET w == ingest_log[k]
    IN (w.phase = "apply" /\ w.fresh /\ PyStr(w.doc_id) \notin StorageKeys)
       => \A j \in LogIndexes : j > w.at => sync_log[j].doc_id # w.doc_id

\* C10 witness: upload_study() created a document during the apply phase for
\* a study the storage scan did not see, and sync() mutated on and ended
C10_Witness ==
  /\ sync_pc = "done"
  /\ \E k \in 1..Len(ingest_log) :
       /\ ingest_log[k].phase = "apply" /\ ingest_log[k].fresh
       /\ PyStr(ingest_log[k].doc_id) \notin StorageKeys
       /\ Len(sync_log) > ingest_log[k].at

\* the documents the two scripts wrote (the documents found before they ran
\* carry another upload_date)
WrittenBySync(doc) == doc.upload_date = "SERVER_TIMESTAMP"
WrittenByIngest(doc) == doc.upload_date = "utcnow"

\* C11: no document written by upload_study() or by sync() has
\* total_series = 0.
C11_NoEmptyStudy ==
  \A k \in DOMAIN db :
    (WrittenBySync(db[k]) \/ WrittenByIngest(db[k])) => db[k].total_series > 0

\* the study directories recorded in failed_studies / in uploaded_studies
FailedDirs == {failed_studies[i] : i \in 1..Len(failed_studies)}
UploadedIds == {uploaded_studies[i].study_id : i \in 1..Len(uploaded_studies)}

\* C12: while upload_studies() runs, every study directory before the current
\* one is recorded once, in uploaded_studies or in failed_studies; at the end
\* of the run every selected study directory is in exactly one of the two
\* lists, in failed_studies iff upload_study() raised or returned None for
\* it, and the lengths of the two lists add up to the number of selected
\* study directories.
C12_EveryStudyAccounted ==
  /\ ing_pc \in {"study", "series", "file"} =>
       Len(uploaded_studies) + Len(failed_studies) = study_idx - 1
  /\ ing_pc = "done" =>
       /\ Len(uploaded_studies) + Len(failed_studies) = Cardinality(SelectedStudies)
       /\ SelectedStudies \in SelectedDirs(DOMAIN dicom_root, TRUE)
                                \cup SelectedDirs(DOMAIN dicom_root, FALSE)
       /\ FailedDirs \subseteq SelectedStudies
       /\ Cardinality(FailedDirs) = Len(failed_studies)
       /\ Cardinality(UploadedIds) = Len(uploaded_studies)
       /\ \A d \in SelectedStudies :
            /\ d \in FailedDirs <=> ~Processable(d)
            /\ d \notin FailedDirs <=>
                 (IsIntLiteral(d) /\ StudyIdOf(d) \in UploadedIds)

\* C12 witness: a run ended in which a study was uploaded after an earlier
\* study of the same run had failed
C12_Witness ==
  /\ ing_pc = "done"
  /\ \E a, b \in 1..Len(study_dirs) :
       /\ a < b
       /\ study_dirs[a] \in FailedDirs
       /\ IsIntLiteral(study_dirs[b])
       /\ StudyIdOf(study_dirs[b]) \in UploadedIds

\* the filenames of a files list
FileNames(files) == {files[j].filename : j \in 1..Len(files)}

\* the create and update entries of sync_log whose document is still the one
\* sync() wrote
SyncBuilt ==
  {j \in LogIndexes : /\ sync_log[j].op \in {"create", "update"}
                      /\ sync_log[j].doc_id \in DOMAIN db
                      /\ WrittenBySync(db[sync_log[j].doc_id])}

\* a files entry carries the fallback values
IsFallback(entry) == entry.instance_number = 0 /\ entry.slice_location = 0

\* C13: in a document built by create_study_metadata() every series lists
\* each filename of the storage scan once, and in a document built by
\* upload_study() every series lists each .dcm file of its directory once; an
\* entry whose bytes do not parse carries instance_number 0 and
\* slice_location 0.
C13_NoFileDropped ==
  /\ \A j \in SyncBuilt :
       LET doc == db[sync_log[j].doc_id]
           sd == storage_studies[sync_log[j].study_id]
       IN /\ Len(doc.series) = Len(sd)
          /\ \A i \in 1..Len(sd) :
               /\ Len(doc.series[i].files) = Len(sd[i].filenames)
               /\ FileNames(doc.series[i].files) =
                    {sd[i].filenames[n] : n \in 1..Len(sd[i].filenames)}
               /\ \A n \in 1..Len(doc.series[i].files) :
                    LET entry == doc.series[i].files[n]
                        blob_path == BlobPath(doc.study_id, doc.series[i].series_id,
                                              entry.filename)
                    IN ~sync_bucket[blob_path].readable => IsFallback(entry)
  /\ \A k \in 1..Len(uploaded_studies) :
       LET up == uploaded_studies[k]
           d == Str(up.study_id)
       IN \A i \in 1..Len(up.series) :
            LET sd == Str(up.series[i].series_id)
            IN /\ Len(up.series[i].files) = Cardinality(LocalDcm(d, sd))
               /\ FileNames(up.series[i].files) = LocalDcm(d, sd)
               /\ \A n \in 1..Len(up.series[i].files) :
                    LET entry == up.series[i].files[n]
                    IN ~dicom_root[d][sd][entry.filename].readable
                         => IsFallback(entry)

\* C13 witness: sync() has written a document that lists a file whose blob
\* does not parse
C13_Witness ==
  \E j \in SyncBuilt :
    LET doc == db[sync_log[j].doc_id]
    IN \E i \in 1..Len(doc.series) : \E n \in 1..Len(doc.series[i].files) :
         ~sync_bucket[BlobPath(doc.study_id, doc.series[i].series_id,
                          doc.series[i].files[n].filename)].readable

\* C14: in every series of a document built by create_study_metadata() the
\* files are in non-decreasing order of the integer that the digits of the
\* filename spell (0 without digits).
C14_NumericOrder ==
  \A j \in SyncBuilt :
    LET doc == db[sync_log[j].doc_id]
    IN \A i \in 1..Len(doc.series) :
         \A a, b \in 1..Len(doc.series[i].files) :
           a < b => NumericKey(doc.series[i].files[a].filename)
                      <= NumericKey(doc.series[i].files[b].filename)

\* C14 witness: sync() has written a series whose first file follows its
\* second one both as a string and by the InstanceNumber of the header
C14_Witness ==
  \E j \in SyncBuilt :
    LET doc == db[sync_log[j].doc_id]
    IN \E i \in 1..Len(doc.series) :
         /\ Len(doc.series[i].files) >= 2
         /\ StrLess(doc.series[i].files[2].filename, doc.series[i].files[1].filename)
         /\ doc.series[i].files[2].instance_number
              < doc.series[i].files[1].instance_number

\* the order of the filenames and the counts of a built document
FileOrder(doc) ==
  [total_slices |-> doc.total_slices,
   series |-> [i \in 1..Len(doc.series) |->
                 [slice_count |-> doc.series[i].slice_count,
                  filenames |-> [n \in 1..Len(doc.series[i].files) |->
                                   doc.series[i].files[n].filename]]]]

\* the filenames the bucket of sync() holds for a series of a study
SeriesObjects(study_key, series_key) ==
  {pair[2] : pair \in {x \in StoredFiles(sync_bucket, study_key) : x[1] = series_key}}

\* the one order of a set of filenames by numeric key, ties by filename
InKeyThenNameOrder(a, b) ==
  \/ NumericKey(a) < NumericKey(b)
  \/ NumericKey(a) = NumericKey(b) /\ StrLess(a, b)

\* C15: the document sync() builds for a study is a function of the objects
\* the bucket holds for it: every series lists exactly the filenames of its
\* objects, in the order of their numeric keys with filenames of the same key
\* in the order of their names, and the counts are the numbers of objects.
C15_FunctionOfObjectSet ==
  \A j \in SyncBuilt :
    LET doc == db[sync_log[j].doc_id]
        key == Str(sync_log[j].study_id)
    IN /\ {doc.series[i].series_id : i \in 1..Len(doc.series)}
            = {PyStr(pair[1]) : pair \in StoredFiles(sync_bucket, key)}
       /\ doc.total_series
            = Cardinality({pair[1] : pair \in StoredFiles(sync_bucket, key)})
       /\ doc.total_slices = Cardinality(StoredFiles(sync_bucket, key))
       /\ \A i \in 1..Len(doc.series) :
            LET files == doc.series[i].files
                objects == SeriesObjects(key, Str(doc.series[i].series_id))
            IN /\ FileNames(files) = objects
               /\ Len(files) = Cardinality(objects)
               /\ doc.series[i].slice_count = Cardinality(objects)
               /\ \A a, b \in 1..Len(files) :
                    a < b => InKeyThenNameOrder(files[a].filename, files[b].filename)

\* C15 witness: sync() has written a series in which two filenames of the
\* same numeric key are followed by one of a greater key that precedes them
\* as a string
C15_Witness ==
  \E j \in SyncBuilt :
    LET doc == db[sync_log[j].doc_id]
    IN \E i \in 1..Len(doc.series) :
         \E a, b, c \in 1..Len(doc.series[i].files) :
           LET fa == doc.series[i].files[a].filename
               fb == doc.series[i].files[b].filename
               fc == doc.series[i].files[c].filename
           IN /\ a < b /\ b < c
              /\ NumericKey(fa) = NumericKey(fb)
              /\ NumericKey(fb) < NumericKey(fc)
              /\ StrLess(fc, fa)

\* the count invariants of a study document
CountsAgree(doc) ==
  /\ doc.total_series = Len(doc.series)
  /\ \A i \in 1..Len(doc.series) :
       doc.series[i].slice_count = Len(doc.series[i].files)
  /\ doc.total_slices =
       SumSeq([i \in 1..Len(doc.series) |-> doc.series[i].slice_count])
  /\ doc.status = "ready"

\* C16: every document that sync() or upload_study() wrote has total_series
\* equal to the number of its series records, every slice_count equal to the
\* length of the files list, total_slices equal to the sum of the
\* slice_counts, and status 'ready'.
C16_CountInvariants ==
  /\ \A k \in DOMAIN db :
       (WrittenBySync(db[k]) \/ WrittenByIngest(db[k])) => CountsAgree(db[k])
  /\ \A k \in 1..Len(uploaded_studies) : CountsAgree(uploaded_studies[k])

\* C16 witness: the catalog holds a document written by sync() and one
\* written by upload_study(), one of them with a series of two files
C16_Witness ==
  /\ \E k \in DOMAIN db : WrittenBySync(db[k])
  /\ \E k \in DOMAIN db : WrittenByIngest(db[k])
  /\ \E k \in DOMAIN db : \E i \in 1..Len(db[k].series) :
       db[k].series[i].slice_count = 2

Scanned == sync_pc \in {"scanned_storage", "apply", "done"}

\* an object name of 4 '/'-separated segments whose last one ends with '.dcm'
HasStudyShape(name) ==
  LET parts == Split(name)
  IN IF Len(parts) = 4 THEN EndsWith(parts[4], DotDcm) ELSE FALSE

\* C17: with no writer to its bucket, the storage scan of sync() lists a
\* filename under a study and a series iff that bucket holds, under the prefix
\* 'dicoms/', an object of 4 segments dicoms/study/series/filename whose
\* filename ends with '.dcm'; every study of the scan has a series and every
\* series a file, each listed once.
C17_ScanRecognises ==
  Scanned =>
    /\ \A name \in DOMAIN sync_bucket :
         (StartsWith(name, DicomsPrefix) /\ HasStudyShape(name)) =>
           /\ PyStr(Split(name)[2]) \in StorageKeys
           /\ <<Split(name)[3], Split(name)[4]>> \in ScannedFiles(Split(name)[2])
    /\ \A study_id \in StorageKeys :
         LET sd == storage_studies[study_id]
         IN /\ Len(sd) >= 1
            /\ \A i, k \in 1..Len(sd) : sd[i].series_id = sd[k].series_id => i = k
            /\ \A i \in 1..Len(sd) :
                 /\ Len(sd[i].filenames) >= 1
                 /\ \A n, m \in 1..Len(sd[i].filenames) :
                      sd[i].filenames[n] = sd[i].filenames[m] => n = m
                 /\ \A n \in 1..Len(sd[i].filenames) :
                      LET name == BlobPath(study_id, PyStr(sd[i].series_id),
                                           sd[i].filenames[n])
                      IN /\ name \in DOMAIN sync_bucket
                         /\ HasStudyShape(name)
                         /\ Split(name) = <<Split(name)[1], Str(study_id),
                                            sd[i].series_id, sd[i].filenames[n]>>

\* C17 witness: the storage scan has listed a study while the bucket holds,
\* under the prefix, an object of fewer segments and one without '.dcm'
C17_Witness ==
  /\ Scanned
  /\ StorageKeys # {}
  /\ \E name \in DOMAIN sync_bucket :
       StartsWith(name, DicomsPrefix) /\ Len(Split(name)) # 4
  /\ \E name \in DOMAIN sync_bucket :
       /\ StartsWith(name, DicomsPrefix) /\ Len(Split(name)) = 4
       /\ ~EndsWith(Split(name)[4], DotDcm)

\* C18 as claimed: sync_firestore.py changes the collection only in an
\* invocation that follows a dry run, the preview of those changes.
C18_DryRunPrecedes ==
  [][(SyncNext /\ db' # db) => summary.mode = "dry_run"]_vars

\* C18 as amended: sync_firestore.py changes the collection only in an
\* invocation given --apply, and only after that invocation has itself
\* computed the analysis: each change is one delete of an orphaned study or
\* one write of a missing or existing study of that analysis. No earlier dry
\* run is required.
C18_ApplyOnlyAfterAnalysis ==
  [][(SyncNext /\ db' # db) =>
       /\ ~dry_run
       /\ sync_pc = "apply"
       /\ Len(sync_log') = Len(sync_log) + 1
       /\ LET e == sync_log'[Len(sync_log')]
          IN \/ e.op = "delete" /\ e.study_id \in orphaned_studies
             \/ e.op = "create" /\ e.study_id \in missing_studies
             \/ e.op = "update" /\ e.study_id \in existing_studies]_vars

\* C18 witness: the first invocation ever was given --apply and has changed
\* the collection
C18_Witness ==
  /\ sync_runs = 1 /\ ~dry_run
  /\ summary.mode = "none"
  /\ sync_log # <<>>
  /\ db \notin Catalogs

\* the answers that spell 'yes' in whatever case, among those the operator
\* may type
YesAnswers == {<<"y", "e", "s">>, <<"Y", "E", "S">>, <<"Y", "e", "s">>}

\* the prompts of the running cleanup that were answered 'yes'
AnsweredYes ==
  {responses[j].doc_id : j \in {n \in 1..Len(responses) :
                                  responses[n].response \in YesAnswers}}

\* C19: throughout a run of cleanup_firestore.py with no other writer, the
\* documents are prompted for one at a time, each document of the collection
\* once; the documents answered 'yes' in whatever case are deleted, and every
\* other document of the collection is there with its body unchanged.
C19_DeletesOnlyConfirmed ==
  cleanup_pc \in {"prompt", "done"} =>
    /\ Len(responses) = cleanup_idx - 1
    /\ cleanup_pc = "done" => Len(responses) = Len(cleanup_studies)
    /\ \A i \in 1..Len(responses) : responses[i].doc_id = cleanup_studies[i].id
    /\ \A i, k \in 1..Len(cleanup_studies) :
         cleanup_studies[i].id = cleanup_studies[k].id => i = k
    /\ DOMAIN db \subseteq {cleanup_studies[i].id : i \in 1..Len(cleanup_studies)}
    /\ \A i \in 1..Len(cleanup_studies) :
         LET study_doc == cleanup_studies[i]
         IN IF study_doc.id \in AnsweredYes
            THEN study_doc.id \notin DOMAIN db
            ELSE /\ study_doc.id \in DOMAIN db
                 /\ db[study_doc.id] = study_doc.data

\* C19 witness: a cleanup run ended after one document was answered 'YES',
\* one 'no' and one 'y'
C19_Witness ==
  /\ cleanup_pc = "done"
  /\ \E a, b, c \in 1..Len(responses) :
       /\ responses[a].response = <<"Y", "E", "S">>
       /\ responses[a].doc_id \notin DOMAIN db
       /\ responses[b].response = <<"n", "o">>
       /\ responses[c].response = <<"y">>
       /\ {responses[b].doc_id, responses[c].doc_id} \subseteq DOMAIN db

\* a document written by upload_study() is stored for a study directory
HasIngestDoc(d) ==
  /\ Str(StudyIdOf(d)) \in DOMAIN db
  /\ WrittenByIngest(db[Str(StudyIdOf(d))])

\* C20: with upload_dicoms.py the only writer, every file listed in a document
\* written by upload_study() has an object at its storage path, and every
\* .dcm file of a study recorded as uploaded has one; during the first run the
\* study being processed has no document written yet, and a study recorded as
\* failed has none written by upload_study().
C20_DocumentAfterFiles ==
  /\ \A k \in DOMAIN db :
       WrittenByIngest(db[k]) => ListedPaths(db[k]) \subseteq DOMAIN bucket
  /\ \A k \in 1..Len(uploaded_studies) :
       LET up == uploaded_studies[k]
           d == Str(up.study_id)
       IN /\ db[d] = up
          /\ \A sd \in DOMAIN dicom_root[d] : \A f \in LocalDcm(d, sd) :
               BlobPath(up.study_id, SeriesIdOf(sd), f) \in DOMAIN bucket
  /\ (ingest_runs = 1 /\ ing_pc \in {"series", "file"}) => ~HasIngestDoc(CurStudyDir)
  /\ \A d \in FailedDirs : IsIntLiteral(d) => ~HasIngestDoc(d)

\* C20 witness: a run ended that wrote the document of a study with a file,
\* and recorded as failed a study of which a file had been uploaded
C20_Witness ==
  /\ ing_pc = "done"
  /\ \E k \in 1..Len(uploaded_studies) : ListedPaths(uploaded_studies[k]) # {}
  /\ \E d \in FailedDirs :
       /\ IsIntLiteral(d)
       /\ StoredFiles(bucket, d) # {}
       /\ ~HasIngestDoc(d)

\* C21: with the bucket unchanged and no other writer, the analysis of a
\* sync() that follows a completed sync(dry_run=False) finds no orphaned and
\* no missing study.
C21_FixedPointAfterOnePass ==
  [][(SyncScanFirestore /\ summary.mode = "applied") =>
       (orphaned_studies' = {} /\ missing_studies' = {})]_vars

\* C22: no step of sync() changes either bucket, no step of upload_dicoms.py
\* changes the bucket of sync(), and every step of upload_dicoms.py leaves
\* each object of its own bucket in place with its bytes; a step that changes
\* that bucket adds one object at a path that held none.
C22_StoreNeverDamaged ==
  [][/\ SyncNext => bucket' = bucket
     /\ sync_bucket' = sync_bucket
     /\ \A name \in DOMAIN bucket :
          name \in DOMAIN bucket' /\ bucket'[name] = bucket[name]
     /\ bucket' # bucket =>
          Cardinality(DOMAIN bucket' \ DOMAIN bucket) = 1]_vars

\* C22 witness: an upload of a directory and a sync(dry_run=False) have ended,
\* the upload has added an object, and an object that was there before with
\* other bytes than the local file of its path is as it was
C22_Witness ==
  /\ ing_pc = "done"
  /\ sync_pc = "done" /\ ~dry_run /\ sync_log # <<>>
  /\ dicom_root = TreeA
  /\ LET kept == BlobPath(PyInt(1), PyInt(1), F2)
         added == BlobPath(PyInt(1), PyInt(1), F10)
     IN /\ kept \in DOMAIN Bucket2
        /\ bucket[kept] = Bucket2[kept]
        /\ bucket[kept] # TreeA[N1][N1][F2]
        /\ added \in DOMAIN bucket
        /\ added \notin DOMAIN Bucket2
        /\ sync_bucket = Bucket1

====
